---- MODULE Spec2Model ----
(***************************************************************************)
(* AnorakFPS API (src/main.py, src/schemas.py): the startup seeding of the *)
(* document store and the request handlers over it.                        *)
(*                                                                         *)
(* The store is external and shared: it is one variable, read and written  *)
(* by every running instance of the process.  Every store round trip of    *)
(* the seeding code is one step, so that instances interleave between the  *)
(* emptiness check and the insert.  A request handler makes one store call *)
(* and is one step.                                                        *)
(***************************************************************************)
EXTENDS Integers, Sequences, FiniteSets, TLC

VARIABLES
    store,      \* collection name -> sequence of stored documents (store order)
    colls,      \* names of the collections that exist in the database
    dbHandle,   \* TRUE iff the module-level `db` is not None
    ninst,      \* number of process instances started against the store
    pc,         \* instance -> position in startup / serving
    restarts,   \* number of process restarts so far (all instances)
    run,        \* history: instance -> facts about its current seeding run
    last        \* the response being returned to the client, NoResponse if none

vars == <<store, colls, dbHandle, ninst, pc, restarts, run, last>>

----------------------------------------------------------------------------
(* Bounds *)

MaxInst == 2
MaxRestarts == 1
MaxBookings == 1
MaxEmailLen == 5

Instances == 1..MaxInst

----------------------------------------------------------------------------
(* Collections and the hardcoded seed content *)

ProfileColl == "coachprofile"
PackageColl == "coachingpackage"
TestimonialColl == "testimonial"
BookingColl == "bookingrequest"

Collections == {ProfileColl, PackageColl, TestimonialColl, BookingColl}

profile == <<[name |-> "Anorak"]>>

pkgs ==
    << [title |-> "VOD Review + Action Plan"],
       [title |-> "Live 1:1 Coaching Session"],
       [title |-> "Climb Pack (3 Sessions)"] >>

reviews == <<[name |-> "Kade"], [name |-> "Mila"], [name |-> "Yuki"]>>

SeedContent(c) ==
    CASE c = ProfileColl -> profile
      [] c = PackageColl -> pkgs
      [] c = TestimonialColl -> reviews

----------------------------------------------------------------------------
(* BookingRequest validation (schemas.py): name and email are required,    *)
(* email is an EmailStr.  An email is a sequence of characters.            *)

Alphabet == {"a", "@", "."}

Emails == UNION {[1..n -> Alphabet] : n \in 0..MaxEmailLen}

\* a dot-atom: non-empty, no leading, trailing or doubled "."
DotAtom(s) ==
    /\ Len(s) > 0
    /\ s[1] # "."
    /\ s[Len(s)] # "."
    /\ \A k \in 1..(Len(s) - 1) : ~(s[k] = "." /\ s[k + 1] = ".")

EmailStr(e) ==
    /\ Cardinality({k \in 1..Len(e) : e[k] = "@"}) = 1
    /\ LET at == CHOOSE k \in 1..Len(e) : e[k] = "@"
           local == SubSeq(e, 1, at - 1)
           domain == SubSeq(e, at + 1, Len(e))
       IN  /\ DotAtom(local)
           /\ DotAtom(domain)
           /\ \E k \in 1..Len(domain) : domain[k] = "."

RequiredFields == {"name", "email"}

\* a request body: the fields it carries and their values
Payloads ==
    {[fields |-> F,
      name |-> IF "name" \in F THEN "Jon" ELSE "",
      email |-> IF "email" \in F THEN e ELSE <<>>] :
        F \in SUBSET RequiredFields, e \in Emails}

BookingRequest(p) ==
    /\ RequiredFields \subseteq p.fields
    /\ EmailStr(p.email)

ValidPayloads == {p \in Payloads : BookingRequest(p)}

\* the record a validated request dumps to
BookingRecord(p) == [name |-> p.name, email |-> p.email]

----------------------------------------------------------------------------
(* Document Store Gateway (database.py: create_document, get_documents)    *)

StoreDown == "Database not available"
StoreError == "store operation failed"
NoError == ""

TotalDocs(s) ==
    Len(s[ProfileColl]) + Len(s[PackageColl]) + Len(s[TestimonialColl]) + Len(s[BookingColl])

\* the store generates a fresh identifier for every inserted document
NewId(s) == TotalDocs(s) + 1

\* the outcomes one store call can have: an error message, or NoError
CallOutcomes == IF dbHandle THEN {NoError, StoreError} ELSE {StoreDown}

\* create_document(collection, record): the store after a successful insert
create_document(s, c, rec) ==
    [s EXCEPT ![c] = Append(@, [id |-> NewId(s), body |-> rec])]

\* get_documents(collection, limit): the documents in store order
get_documents(s, c, limit) ==
    IF limit > 0 /\ limit < Len(s[c]) THEN SubSeq(s[c], 1, limit) ELSE s[c]

NoLimit == 0

\* it.pop("_id", None): the document without its storage identifier
StripId(doc) == doc.body

StripAll(items) == [k \in 1..Len(items) |-> StripId(items[k])]

----------------------------------------------------------------------------
(* Exceptions and responses *)

NoExc == [type |-> "none", status |-> 0, msg |-> ""]

Exception(msg) == [type |-> "Exception", status |-> 0, msg |-> msg]

HTTPException(status, detail) == [type |-> "HTTPException", status |-> status, msg |-> detail]

\* `except Exception`: HTTPException is a subclass of Exception
ExceptException(e) == e.type \in {"Exception", "HTTPException"}

\* str(e): the message of a plain exception; "<status>: <detail>" for the one
\* HTTPException a handler body raises
Str(e) == IF e.type = "HTTPException" THEN "404: Profile not found" ELSE e.msg

Response(i, op, status, detail, err, body) ==
    [inst |-> i, op |-> op, status |-> status, detail |-> detail, err |-> err, body |-> body]

NoResponse == Response(0, "none", 0, "", NoError, <<>>)

\* variant: no except clause, the framework answers a bare 500
HandlerExcept_Propagates(i, op, e, err) ==
    Response(i, op, 500, "Internal Server Error", err, <<>>)

\* a handler body `try: ... except Exception as e: raise HTTPException(500, str(e))`:
\* the response when the body raised `e`
HandlerExcept(i, op, e, err) ==
    IF ExceptException(e)
    THEN Response(i, op, 500, Str(e), err, <<>>)
    ELSE Response(i, op, e.status, e.msg, err, <<>>)

\* the fixed acknowledgement text of create_booking (its apostrophe in ASCII)
Ack == "Booking request received. I'll reach out via email/Discord."

\* get_profile: `err` is the outcome of its store call, `items` what it returned
get_profile(i, err, items) ==
    LET e == IF err # NoError THEN Exception(err)
             ELSE IF items = <<>> THEN HTTPException(404, "Profile not found")
             ELSE NoExc
    IN  IF e = NoExc
        THEN Response(i, "GetProfile", 200, "", err, <<StripId(items[1])>>)
        ELSE HandlerExcept(i, "GetProfile", e, err)

\* get_packages / get_testimonials
get_list(i, op, err, items) ==
    IF err = NoError
    THEN Response(i, op, 200, "", err, StripAll(items))
    ELSE HandlerExcept(i, op, Exception(err), err)

\* create_booking, after the body was validated
create_booking(i, err) ==
    IF err = NoError
    THEN Response(i, "CreateBooking", 200, "", err, <<[success |-> TRUE, message |-> Ack]>>)
    ELSE HandlerExcept(i, "CreateBooking", Exception(err), err)

\* variant: the handler takes the body unvalidated
ParseBody_Unvalidated(p) == TRUE

\* the framework parses the body into `request: BookingRequest` before the handler runs
ParseBody(p) == p \in ValidPayloads

\* a body that does not parse is answered 422 without calling the handler
Unprocessable(i) == Response(i, "CreateBooking", 422, "validation error", NoError, <<>>)

----------------------------------------------------------------------------
(* Startup: startup_event and ensure_seed_data *)

At(a, c, k) == [at |-> a, coll |-> c, k |-> k]

Boot == At("boot", "-", 0)
Serving == At("serving", "-", 0)
Crashed == At("crashed", "-", 0)
Off == At("off", "-", 0)

\* variant: no try/except around ensure_seed_data
StartupExcept_Propagates == Crashed

\* startup_event: `except Exception: pass`, the seeding failure is dropped
StartupExcept == Serving

\* the position after collection c has been dealt with
AfterColl(c) ==
    CASE c = ProfileColl -> At("list", PackageColl, 0)
      [] c = PackageColl -> At("list", TestimonialColl, 0)
      [] c = TestimonialColl -> Serving

\* variant: `in` for `not in`
NotListed_Flipped(c, names) == c \in names

\* `"<c>" not in db.list_collection_names()`
NotListed(c, names) == c \notin names

\* variants: `>= 0` and `< 3` for `== 0`
CountIsZero_NonNegative(n) == n >= 0

CountIsZero_FewerThanAll(n) == n < 3

\* `db["<c>"].count_documents({}) == 0`
CountIsZero(n) == n = 0

\* variant: the loop stops one record early
MoreToInsert_OffByOne(c, k) == k + 1 < Len(SeedContent(c))

\* `for p in pkgs:` / `for r in reviews:`: another record follows the k-th
MoreToInsert(c, k) == k < Len(SeedContent(c))

SeedColls == {ProfileColl, PackageColl, TestimonialColl}

Populated(s) == \A c \in SeedColls : s[c] # <<>>

\* history of a run: was the store populated when it began, did a store call fail
RunStart(s) == [populated |-> Populated(s), failed |-> FALSE]

Failed(i) == [run EXCEPT ![i].failed = TRUE]

Startup(i) ==
    /\ pc[i] = Boot
    /\ pc' = [pc EXCEPT ![i] = IF dbHandle THEN At("list", ProfileColl, 0) ELSE Serving]
    /\ run' = [run EXCEPT ![i] = RunStart(store)]
    /\ UNCHANGED <<store, colls, dbHandle, ninst, restarts, last>>

SeedList(i) ==
    /\ pc[i].at = "list"
    /\ \E err \in CallOutcomes :
         IF err # NoError
         THEN /\ pc' = [pc EXCEPT ![i] = StartupExcept]
              /\ run' = Failed(i)
         ELSE /\ pc' = [pc EXCEPT ![i] =
                          IF NotListed(pc[i].coll, colls) THEN At("ins", pc[i].coll, 1)
                          ELSE At("count", pc[i].coll, 0)]
              /\ UNCHANGED run
    /\ UNCHANGED <<store, colls, dbHandle, ninst, restarts, last>>

SeedCount(i) ==
    /\ pc[i].at = "count"
    /\ \E err \in CallOutcomes :
         IF err # NoError
         THEN /\ pc' = [pc EXCEPT ![i] = StartupExcept]
              /\ run' = Failed(i)
         ELSE /\ pc' = [pc EXCEPT ![i] =
                          IF CountIsZero(Len(store[pc[i].coll])) THEN At("ins", pc[i].coll, 1)
                          ELSE AfterColl(pc[i].coll)]
              /\ UNCHANGED run
    /\ UNCHANGED <<store, colls, dbHandle, ninst, restarts, last>>

SeedInsert(i) ==
    /\ pc[i].at = "ins"
    /\ LET c == pc[i].coll
           k == pc[i].k
       IN  \E err \in CallOutcomes :
             IF err # NoError
             THEN /\ pc' = [pc EXCEPT ![i] = StartupExcept]
                  /\ run' = Failed(i)
                  /\ UNCHANGED <<store, colls>>
             ELSE /\ store' = create_document(store, c, SeedContent(c)[k])
                  /\ colls' = colls \cup {c}
                  /\ pc' = [pc EXCEPT ![i] =
                              IF MoreToInsert(c, k) THEN At("ins", c, k + 1)
                              ELSE AfterColl(c)]
                  /\ UNCHANGED run
    /\ UNCHANGED <<dbHandle, ninst, restarts, last>>

\* the process is stopped and started again
Restart(i) ==
    /\ pc[i] \in {Serving, Crashed}
    /\ restarts < MaxRestarts
    /\ restarts' = restarts + 1
    /\ pc' = [pc EXCEPT ![i] = Boot]
    /\ last' = NoResponse
    /\ UNCHANGED <<store, colls, dbHandle, ninst, run>>

----------------------------------------------------------------------------
(* Request handlers.  A handler takes a request and leaves its response in *)
(* `last`; Deliver hands the response to the client.                       *)

Idle(i) == pc[i] = Serving /\ last = NoResponse

Deliver ==
    /\ last # NoResponse
    /\ last' = NoResponse
    /\ UNCHANGED <<store, colls, dbHandle, ninst, pc, restarts, run>>

ReadRoot(i) ==
    /\ Idle(i)
    /\ last' = Response(i, "ReadRoot", 200, "", NoError, <<[message |-> "AnorakFPS API running"]>>)
    /\ UNCHANGED <<store, colls, dbHandle, ninst, pc, restarts, run>>

GetProfile(i) ==
    /\ Idle(i)
    /\ \E err \in CallOutcomes :
         last' = get_profile(i, err, get_documents(store, ProfileColl, 1))
    /\ UNCHANGED <<store, colls, dbHandle, ninst, pc, restarts, run>>

GetPackages(i) ==
    /\ Idle(i)
    /\ \E err \in CallOutcomes :
         last' = get_list(i, "GetPackages", err, get_documents(store, PackageColl, NoLimit))
    /\ UNCHANGED <<store, colls, dbHandle, ninst, pc, restarts, run>>

GetTestimonials(i) ==
    /\ Idle(i)
    /\ \E err \in CallOutcomes :
         last' = get_list(i, "GetTestimonials", err,
                          get_documents(store, TestimonialColl, NoLimit))
    /\ UNCHANGED <<store, colls, dbHandle, ninst, pc, restarts, run>>

\* variant: acknowledges without persisting
CreateBooking_NoWrite(i, p) ==
    /\ pc[i] = Serving /\ last = NoResponse
    /\ Len(store[BookingColl]) < MaxBookings
    /\ last' = IF ParseBody(p) THEN create_booking(i, NoError) ELSE Unprocessable(i)
    /\ UNCHANGED <<store, colls, dbHandle, ninst, pc, restarts, run>>

\* variant: persists into the testimonial collection
CreateBooking_WrongCollection(i, p) ==
    /\ pc[i] = Serving /\ last = NoResponse
    /\ Len(store[BookingColl]) < MaxBookings
    /\ IF ~ParseBody(p)
       THEN /\ last' = Unprocessable(i)
            /\ UNCHANGED <<store, colls>>
       ELSE \E err \in CallOutcomes :
              /\ last' = create_booking(i, err)
              /\ IF err = NoError
                 THEN /\ store' = create_document(store, TestimonialColl, BookingRecord(p))
                      /\ colls' = colls \cup {TestimonialColl}
                 ELSE UNCHANGED <<store, colls>>
    /\ UNCHANGED <<dbHandle, ninst, pc, restarts, run>>

CreateBooking(i, p) ==
    /\ Idle(i)
    /\ Len(store[BookingColl]) < MaxBookings
    /\ IF ~ParseBody(p)
       THEN /\ last' = Unprocessable(i)
            /\ UNCHANGED <<store, colls>>
       ELSE \E err \in CallOutcomes :
              /\ last' = create_booking(i, err)
              /\ IF err = NoError
                 THEN /\ store' = create_document(store, BookingColl, BookingRecord(p))
                      /\ colls' = colls \cup {BookingColl}
                 ELSE UNCHANGED <<store, colls>>
    /\ UNCHANGED <<dbHandle, ninst, pc, restarts, run>>

\* POST /api/bookings with any request body
PostBooking(i) ==
    /\ Idle(i)
    /\ \E p \in Payloads : CreateBooking(i, p)

GetSchema(i) ==
    /\ Idle(i)
    /\ last' = Response(i, "GetSchema", 200, "", NoError,
                        <<[models |-> <<"CoachProfile", "CoachingPackage",
                                        "Testimonial", "BookingRequest">>]>>)
    /\ UNCHANGED <<store, colls, dbHandle, ninst, pc, restarts, run>>

\* test_database: the report, `err` being the outcome of list_collection_names()
test_database(err) ==
    IF ~dbHandle
    THEN [database |-> "Available but not initialized",
          connection_status |-> "Not Connected", collections |-> {}]
    ELSE IF err = NoError
    THEN [database |-> "Connected & Working",
          connection_status |-> "Connected", collections |-> colls]
    ELSE [database |-> "Connected but Error",
          connection_status |-> "Connected", collections |-> {}]

TestDatabase(i) ==
    /\ Idle(i)
    /\ \E err \in CallOutcomes :
         last' = Response(i, "TestDatabase", 200, "", err, <<test_database(err)>>)
    /\ UNCHANGED <<store, colls, dbHandle, ninst, pc, restarts, run>>

----------------------------------------------------------------------------
(* Initial states and specifications *)

EmptyStore == [c \in Collections |-> <<>>]

\* documents with consecutive identifiers after `base`
Docs(bodies, base) == [k \in 1..Len(bodies) |-> [id |-> base + k, body |-> bodies[k]]]

\* contents a seedable collection may hold before the process first starts
PriorContent(c) ==
    CASE c = ProfileColl -> {<<>>, profile, <<[name |-> "Coach"]>>}
      [] c = PackageColl -> {<<>>, pkgs, <<[title |-> "Duo Session"]>>}
      [] c = TestimonialColl -> {<<>>, <<[name |-> "Rin"]>>}

PriorStores ==
    {[c \in Collections |->
        CASE c = ProfileColl -> Docs(a, 0)
          [] c = PackageColl -> Docs(b, Len(a))
          [] c = TestimonialColl -> Docs(d, Len(a) + Len(b))
          [] c = BookingColl -> <<>>] :
        a \in PriorContent(ProfileColl), b \in PriorContent(PackageColl),
        d \in PriorContent(TestimonialColl)}

NonEmptyColls(s) == {c \in Collections : s[c] # <<>>}

InitProcess(n) ==
    /\ ninst = n
    /\ pc = [i \in Instances |-> IF i <= n THEN Boot ELSE Off]
    /\ restarts = 0
    /\ run = [i \in Instances |-> RunStart(store)]
    /\ last = NoResponse

\* one instance, started against a store with any prior contents
Init ==
    /\ store \in PriorStores
    /\ colls \in {NonEmptyColls(store), Collections}
    /\ dbHandle \in BOOLEAN
    /\ InitProcess(1)

\* one instance, started against a fresh store
InitFresh ==
    /\ store = EmptyStore
    /\ colls \in {{}, Collections}
    /\ dbHandle \in BOOLEAN
    /\ InitProcess(1)

\* the store after one complete seeding of a fresh store
SeededStore ==
    [c \in Collections |->
        CASE c = ProfileColl -> Docs(profile, 0)
          [] c = PackageColl -> Docs(pkgs, Len(profile))
          [] c = TestimonialColl -> Docs(reviews, Len(profile) + Len(pkgs))
          [] c = BookingColl -> <<>>]

\* one or several instances, started together against a fresh or a seeded store
InitConc ==
    /\ store \in {EmptyStore, SeededStore}
    /\ colls = NonEmptyColls(store)
    /\ dbHandle = TRUE
    /\ \E n \in Instances : InitProcess(n)

Next ==
    \/ Deliver
    \/ \E i \in Instances :
        \/ Startup(i)
        \/ SeedList(i)
        \/ SeedCount(i)
        \/ SeedInsert(i)
        \/ Restart(i)
        \/ ReadRoot(i)
        \/ GetProfile(i)
        \/ GetPackages(i)
        \/ GetTestimonials(i)
        \/ PostBooking(i)
        \/ GetSchema(i)
        \/ TestDatabase(i)

Spec == Init /\ [][Next]_vars
SpecFresh == InitFresh /\ [][Next]_vars

\* concurrent startup: the instances' seeding steps interleave
NextSeed ==
    \E i \in Instances :
        \/ Startup(i)
        \/ SeedList(i)
        \/ SeedCount(i)
        \/ SeedInsert(i)

SpecConc == InitConc /\ [][NextSeed]_vars

\* startup under the fairness the startup hook has: it runs to completion,
\* every store call it makes returns or raises
SeedRun(i) == Startup(i) \/ SeedList(i) \/ SeedCount(i) \/ SeedInsert(i)

SpecLive == InitFresh /\ [][Next]_vars /\ \A i \in Instances : WF_vars(SeedRun(i))

----------------------------------------------------------------------------
(* Properties *)

Bodies(c) == StripAll(store[c])

IsPrefix(s, t) == Len(s) <= Len(t) /\ s = SubSeq(t, 1, Len(s))

ReadOps == {"GetProfile", "GetPackages", "GetTestimonials"}
StoreOps == ReadOps \cup {"CreateBooking"}

\* a step in which a handler answered a request
RequestStep == pc' = pc /\ last = NoResponse /\ last' # NoResponse

\* C1: GetProfile on an available store whose coachprofile collection is
\* empty answers 404, not 500 and not an empty object.
C1_EmptyProfileIs404 ==
    (/\ last.op = "GetProfile"
     /\ dbHandle
     /\ last.err = NoError
     /\ store[ProfileColl] = <<>>) => last.status = 404

\* C2: a CreateBooking payload with a missing required field or a malformed
\* email is answered with a client error and no collection changes.
C2_InvalidBookingRejected ==
    \A i \in Instances :
        Idle(i) =>
            \A p \in Payloads :
                ~BookingRequest(p) =>
                    ~ENABLED (/\ CreateBooking(i, p)
                              /\ ~(/\ last'.status \in 400..499
                                   /\ store' = store
                                   /\ colls' = colls))

C2_Witness ==
    /\ last.op = "CreateBooking"
    /\ last.status = 422
    /\ store[BookingColl] = <<>>

\* C3: a valid payload submitted while the store is available and the write
\* does not fail is answered success = true, and the bookingrequest
\* collection then holds exactly one more document, the submitted record.
C3_ValidBookingStored ==
    \A i \in Instances :
        (Idle(i) /\ dbHandle /\ Len(store[BookingColl]) < MaxBookings) =>
            \A p \in Payloads :
                BookingRequest(p) =>
                    /\ ENABLED (CreateBooking(i, p) /\ last'.err = NoError)
                    /\ ~ENABLED (/\ CreateBooking(i, p)
                                 /\ last'.err = NoError
                                 /\ ~(/\ last'.status = 200
                                      /\ last'.body = <<[success |-> TRUE, message |-> Ack]>>
                                      /\ Len(store'[BookingColl]) = Len(store[BookingColl]) + 1
                                      /\ IsPrefix(store[BookingColl], store'[BookingColl])
                                      /\ store'[BookingColl][Len(store'[BookingColl])].body
                                           = [name |-> p.name, email |-> p.email]
                                      /\ \A c \in SeedColls : store'[c] = store[c]))

C3_Witness ==
    /\ last.op = "CreateBooking"
    /\ last.status = 200
    /\ Len(store[BookingColl]) = 1
    /\ EmailStr(store[BookingColl][1].body.email)

\* a step of instance i's seeding run
SeedStep(i) == pc[i].at \in {"list", "count", "ins"} /\ pc'[i] # pc[i]

\* C4: a seeding run that starts with the coachprofile, coachingpackage and
\* testimonial collections all non-empty changes no collection, whatever
\* they hold and however often it is run.
C4_SeedIdempotentWhenPopulated ==
    [][\A i \in Instances :
          /\ (pc[i] = Boot /\ pc'[i] # pc[i]) => (store' = store /\ colls' = colls)
          /\ (run[i].populated /\ SeedStep(i)) => (store' = store /\ colls' = colls)]_vars

C4_Witness ==
    /\ restarts = 1
    /\ pc[1] = Serving
    /\ run[1].populated
    /\ ~run[1].failed
    /\ Bodies(ProfileColl) = <<[name |-> "Coach"]>>
    /\ Bodies(PackageColl) = pkgs
    /\ Len(store[TestimonialColl]) = 1

\* C5: on a fresh available store, one seeding run that meets no store
\* failure inserts exactly 1 profile, 3 packages and 3 testimonials, and
\* GetPackages then returns the three seeded packages in insertion order.
C5_FreshSeedThenPackages ==
    (/\ restarts = 0
     /\ dbHandle
     /\ pc[1] = Serving
     /\ ~run[1].failed) =>
        /\ Bodies(ProfileColl) = <<[name |-> "Anorak"]>>
        /\ Bodies(PackageColl) = << [title |-> "VOD Review + Action Plan"],
                                    [title |-> "Live 1:1 Coaching Session"],
                                    [title |-> "Climb Pack (3 Sessions)"] >>
        /\ Bodies(TestimonialColl) = <<[name |-> "Kade"], [name |-> "Mila"], [name |-> "Yuki"]>>
        /\ (last.op = "GetPackages" /\ last.err = NoError) =>
              /\ last.status = 200
              /\ last.body = Bodies(PackageColl)

C5_Witness ==
    /\ restarts = 0
    /\ dbHandle
    /\ pc[1] = Serving
    /\ ~run[1].failed
    /\ last.op = "GetPackages"
    /\ last.status = 200
    /\ Len(last.body) = 3

\* C6: startup always completes and the process serves: without a store
\* handle the seeding makes no store call, a store failure during seeding
\* never leaves the startup hook, and no failure stops the process.
C6_StartupAlwaysCompletes ==
    /\ [](\A i \in Instances :
            /\ pc[i] # Crashed
            /\ ~dbHandle => (pc[i].at \notin {"list", "count", "ins"} /\ ~run[i].failed))
    /\ \A i \in Instances : (pc[i] = Boot) ~> (pc[i] = Serving)
    /\ \A i \in Instances : [](last.status >= 500 => pc[i] \in {Serving, Off})

C6_Witness ==
    /\ run[1].failed
    /\ pc[1] = Serving
    /\ last.op = "GetPackages"
    /\ last.status = 200

\* C7: no request changes the coachprofile, coachingpackage or testimonial
\* collection; only CreateBooking changes the bookingrequest collection,
\* and it only appends a document.
C7_HandlersFrame ==
    [][RequestStep =>
          /\ \A c \in SeedColls : store'[c] = store[c]
          /\ last'.op # "CreateBooking" => (store' = store /\ colls' = colls)
          /\ IsPrefix(store[BookingColl], store'[BookingColl])
          /\ Len(store'[BookingColl]) <= Len(store[BookingColl]) + 1]_vars

C7_Witness ==
    /\ last.op = "CreateBooking"
    /\ last.status = 200
    /\ Len(store[BookingColl]) = 1
    /\ Populated(store)

\* C8: a single instance never inserts into a collection that holds a
\* document, so seed data is never duplicated; two instances started together
\* against an empty store can both see it empty and both insert.
C8_SingleInstanceNoDuplicates ==
    ninst = 1 =>
        /\ \A c \in SeedColls : IsPrefix(Bodies(c), SeedContent(c))
        /\ \A i \in Instances :
              pc[i].at = "ins" => Len(store[pc[i].coll]) = pc[i].k - 1

C8_DuplicateSeedData ==
    /\ ninst = 2
    /\ \A i \in 1..2 : pc[i] = Serving /\ ~run[i].failed /\ ~run[i].populated
    /\ Len(store[ProfileColl]) = 2
    /\ Len(store[PackageColl]) = 6
    /\ Bodies(ProfileColl) = profile \o profile

\* C9: a store failure inside GetProfile, GetPackages, GetTestimonials or
\* CreateBooking is answered 500 with the underlying message, and the store
\* is as it was before the request.
C9_StoreFailureIs500 ==
    [][(RequestStep /\ last'.op \in StoreOps /\ last'.err # NoError) =>
          /\ last'.status = 500
          /\ last'.detail = last'.err
          /\ store' = store
          /\ colls' = colls]_vars

C9_Witness ==
    /\ last.op = "CreateBooking"
    /\ dbHandle
    /\ last.err = StoreError
    /\ last.status = 500
    /\ last.detail = StoreError

\* C10 as claimed: between seeding runs, the coachingpackage and testimonial
\* collections are each empty or hold all three default records.
C10_AllOrNothing ==
    pc[1] = Serving =>
        \A c \in {PackageColl, TestimonialColl} : Len(store[c]) \in {0, Len(SeedContent(c))}

\* C10, amended: starting from a fresh store, every seedable collection
\* holds a prefix of its default records in order; a run never adds to a
\* collection that holds a document when the run checks it (the k-th record
\* is only ever inserted after the first k-1), so a collection left partly
\* seeded stays so; and a run that meets no store failure leaves every
\* seedable collection non-empty.
C10_PrefixSeeding ==
    /\ \A c \in SeedColls : IsPrefix(Bodies(c), SeedContent(c))
    /\ \A i \in Instances :
          /\ pc[i].at = "ins" => Len(store[pc[i].coll]) = pc[i].k - 1
          /\ (pc[i] = Serving /\ dbHandle /\ ~run[i].failed) => Populated(store)

C10_Witness ==
    /\ restarts = 1
    /\ pc[1] = Serving
    /\ ~run[1].failed
    /\ Len(store[PackageColl]) = 1
    /\ Len(store[TestimonialColl]) = 3

====
